---- MODULE Spec2Model ----
(***************************************************************************)
(* A model of htmltoadf's structural-mapping core:                         *)
(*   - extractor.rs: esc_hr, has_text_node, is_inside_pre, extract_leaves  *)
(*   - adf_structure.rs: LEGAL_CHILD_TYPES and the img entry of NODE_MAP   *)
(* Text is a sequence of one-character strings; a parse tree is a sequence *)
(* of node records numbered in document order (node 1 is the root element *)
(* and every other node names its parent).                                 *)
(***************************************************************************)
EXTENDS Integers, Sequences, FiniteSets, TLC

VARIABLES
    pc,          \* position of the pipeline
    hrstr,       \* the raw input of esc_hr, a sequence of markup tokens
    escaped,     \* the result of esc_hr
    tree,        \* the parse tree handed to extract_leaves
    edge,        \* the traversal edge being delivered to the closure
    leaf_nodes,  \* the Vec<DocNode> built by extract_leaves
    legal,       \* a run of the permitted-children test
    img          \* a resolution of the img entry of NODE_MAP

vars == <<pc, hrstr, escaped, tree, edge, leaf_nodes, legal, img>>

\* The number of nodes below the root element in the trees of SpecTree.
MaxNodes == 3

\* The number of markup tokens in the inputs of Spec.
MaxTokens == 4

\* The length of the child sequences tried under every parent type in SpecLegal.
MaxChildren == 2

\* The length of the child sequences tried under listItem in SpecLegal.
MaxItemChildren == 4

\* The length of the data-width strings tried in SpecImg.
MaxAttrLen == 2

\* The idle values of the variables a specification does not use.
NoLegal == [parent |-> "", children |-> <<>>, idx |-> 0, phase |-> "idle", result |-> TRUE]
NoImg == [attrs |-> <<>>, node |-> <<>>]

---------------------------------------------------------------------------
(* Characters and text *)

Whitespace == {" ", "\n", "\t"}

RECURSIVE trim_start(_)
trim_start(s) ==
    IF s # <<>> /\ Head(s) \in Whitespace THEN trim_start(Tail(s)) ELSE s

RECURSIVE trim_end(_)
trim_end(s) ==
    IF s # <<>> /\ s[Len(s)] \in Whitespace
    THEN trim_end(SubSeq(s, 1, Len(s) - 1))
    ELSE s

\* str::trim: the text without its leading and trailing whitespace.
trim(s) == trim_end(trim_start(s))

---------------------------------------------------------------------------
(* The parse tree *)

HRBR_PLACEHOLDER == "hrbr"

Root == 1

Element(name, parent, src) ==
    [kind |-> "element", name |-> name, text |-> <<>>, parent |-> parent, src |-> src]

Text(text, parent, src) ==
    [kind |-> "text", name |-> "", text |-> text, parent |-> parent, src |-> src]

Comment(parent, src) ==
    [kind |-> "comment", name |-> "", text |-> <<>>, parent |-> parent, src |-> src]

\* node.children(), as the set of the children's ids (document order is id order).
Children(node) == {c \in DOMAIN tree : tree[c].parent = node}

Min(S) == CHOOSE x \in S : \A y \in S : x <= y

\* node.ancestors(): the proper ancestors of a node.
RECURSIVE Ancestors(_)
Ancestors(node) ==
    IF tree[node].parent = 0
    THEN {}
    ELSE {tree[node].parent} \cup Ancestors(tree[node].parent)

---------------------------------------------------------------------------
(* extractor.rs *)

\* Whether a node is inside a <pre> element.
is_inside_pre(node) ==
    \E ancestor \in Ancestors(node) :
        tree[ancestor].kind = "element" /\ tree[ancestor].name = "pre"

\* The test deciding whether a text node counts: context-dependent.
keeps_text(node) ==
    IF is_inside_pre(node)
    THEN tree[node].text # <<>>
    ELSE trim(tree[node].text) # <<>>

\* has_text_node looking at the direct children only.
has_text_node_shallow(node) ==
    \E child_node \in Children(node) :
        CASE tree[child_node].kind = "element" -> tree[child_node].name = "br"
          [] tree[child_node].kind = "text" -> keeps_text(child_node)
          [] OTHER -> FALSE

RECURSIVE has_text_node(_)
has_text_node(node) ==
    \E child_node \in Children(node) :
        CASE tree[child_node].kind = "element" ->
                tree[child_node].name = "br" \/ has_text_node(child_node)
          [] tree[child_node].kind = "text" -> keeps_text(child_node)
          [] OTHER -> FALSE

DocNode(name, text, node) == [name |-> name, text |-> text, node |-> node]

\* ElementLeaves without the br branch.
ElementLeaves_no_br(node) ==
    LET name == tree[node].name IN
    IF name = "iframe" \/ name = "img" THEN <<DocNode(name, <<>>, node)>>
    ELSE IF name = HRBR_PLACEHOLDER THEN <<DocNode("hr", <<>>, node)>>
    ELSE IF name = "td"
         THEN IF ~has_text_node(node) THEN <<DocNode("td", <<>>, node)>> ELSE <<>>
    ELSE <<>>

\* ElementLeaves recording every other closing tag under its own name.
ElementLeaves_every_tag(node) ==
    LET name == tree[node].name IN
    IF name = HRBR_PLACEHOLDER THEN <<DocNode("hr", <<>>, node)>>
    ELSE IF name = "td"
         THEN IF ~has_text_node(node) THEN <<DocNode("td", <<>>, node)>> ELSE <<>>
    ELSE <<DocNode(name, <<>>, node)>>

\* The leaves the closure pushes for an element at its closing edge.
ElementLeaves(node) ==
    LET name == tree[node].name IN
    IF name = "iframe" \/ name = "img" THEN <<DocNode(name, <<>>, node)>>
    ELSE IF name = HRBR_PLACEHOLDER THEN <<DocNode("hr", <<>>, node)>>
    ELSE IF name = "br" THEN <<DocNode("br", <<>>, node)>>
    ELSE IF name = "td"
         THEN IF ~has_text_node(node) THEN <<DocNode("td", <<>>, node)>> ELSE <<>>
    ELSE <<>>

\* TextLeaves applying the outside-<pre> test everywhere.
TextLeaves_no_pre(node) ==
    IF tree[node].parent # 0
    THEN LET text_content == tree[node].text
             should_keep == trim(text_content) # <<>>
         IN IF should_keep THEN <<DocNode("text", text_content, node)>> ELSE <<>>
    ELSE <<>>

\* The leaves the closure pushes for a text node at its closing edge.
TextLeaves(node) ==
    IF tree[node].parent # 0
    THEN LET text_content == tree[node].text
             inside_pre == is_inside_pre(node)
             should_keep == IF inside_pre
                            THEN text_content # <<>>
                            ELSE trim(text_content) # <<>>
         IN IF should_keep THEN <<DocNode("text", text_content, node)>> ELSE <<>>
    ELSE <<>>

\* Visit recording each node on its opening edge.
Visit_on_open(e) ==
    IF e.kind = "Open"
    THEN IF tree[e.node].kind = "element" THEN ElementLeaves(e.node)
         ELSE IF tree[e.node].kind = "text" THEN TextLeaves(e.node)
         ELSE <<>>
    ELSE <<>>

\* The closure of for_each: what one traversal edge appends to leaf_nodes.
Visit(e) ==
    IF e.kind = "Close"
    THEN IF tree[e.node].kind = "element" THEN ElementLeaves(e.node)
         ELSE IF tree[e.node].kind = "text" THEN TextLeaves(e.node)
         ELSE <<>>
    ELSE <<>>

Open(node) == [kind |-> "Open", node |-> node]
Close(node) == [kind |-> "Close", node |-> node]
NoEdge == [kind |-> "None", node |-> 0]

\* traverse(): the edge that follows e in the depth-first walk from the root element.
NextEdge(e) ==
    IF e.kind = "Open"
    THEN IF Children(e.node) # {} THEN Open(Min(Children(e.node))) ELSE Close(e.node)
    ELSE IF e.node = Root THEN NoEdge
    ELSE LET later == {s \in Children(tree[e.node].parent) : s > e.node} IN
         IF later # {} THEN Open(Min(later)) ELSE Close(tree[e.node].parent)

\* One step of extract_leaves on an opening edge.
EdgeOpen ==
    /\ pc = "traverse"
    /\ edge.kind = "Open"
    /\ leaf_nodes' = leaf_nodes \o Visit(edge)
    /\ edge' = NextEdge(edge)
    /\ UNCHANGED <<pc, hrstr, escaped, tree, legal, img>>

\* One step of extract_leaves on a closing edge; the walk ends after the root closes.
EdgeClose ==
    /\ pc = "traverse"
    /\ edge.kind = "Close"
    /\ leaf_nodes' = leaf_nodes \o Visit(edge)
    /\ edge' = NextEdge(edge)
    /\ pc' = IF edge'.kind = "None" THEN "done" ELSE "traverse"
    /\ UNCHANGED <<hrstr, escaped, tree, legal, img>>

---------------------------------------------------------------------------
(* esc_hr and the parser: markup as a sequence of tokens *)

\* A tag token "<name>", "<name/>", "</name>" or "</name/>".
Tag(open, name, close) ==
    [kind |-> "tag", open |-> open, name |-> name, close |-> close, text |-> <<>>]

\* A run of character data.
Chars(text) ==
    [kind |-> "text", open |-> "", name |-> "", close |-> "", text |-> text]

\* The regular expression </?hr/?> on one tag token.
IsHrMatch(tok) ==
    /\ tok.kind = "tag"
    /\ tok.open \in {"<", "</"}
    /\ tok.name = "hr"
    /\ tok.close \in {">", "/>"}

\* The replacement text <hrbr></hrbr>.
Replacement == <<Tag("<", HRBR_PLACEHOLDER, ">"), Tag("</", HRBR_PLACEHOLDER, ">")>>

\* esc_hr replacing the first match only.
RECURSIVE esc_hr_first(_)
esc_hr_first(s) ==
    IF s = <<>> THEN <<>>
    ELSE IF IsHrMatch(Head(s)) THEN Replacement \o Tail(s)
    ELSE <<Head(s)>> \o esc_hr_first(Tail(s))

\* replace_all: every match, left to right, becomes the replacement.
RECURSIVE esc_hr(_)
esc_hr(s) ==
    IF s = <<>> THEN <<>>
    ELSE (IF IsHrMatch(Head(s)) THEN Replacement ELSE <<Head(s)>>) \o esc_hr(Tail(s))

VoidTags == {"br", "img", "hr"}

\* The elements at which the parser stops looking for the element an end tag closes.
SpecialTags_parser == {"html", "p"}

\* The stack of open elements (ids, innermost last) without the elements from the
\* innermost one named name inwards; unchanged when none is open.
RECURSIVE PopThrough(_, _, _)
PopThrough(t, open, name) ==
    IF Len(open) <= 1 THEN open
    ELSE IF t[open[Len(open)]].name = name THEN SubSeq(open, 1, Len(open) - 1)
    ELSE PopThrough(t, SubSeq(open, 1, Len(open) - 1), name)

IsOpen(t, open, name) == \E k \in 2 .. Len(open) : t[open[k]].name = name

\* Whether an end tag finds its element before a special element stops the search.
RECURSIVE Closes(_, _, _)
Closes(t, open, name) ==
    IF Len(open) <= 1 THEN FALSE
    ELSE IF t[open[Len(open)]].name = name THEN TRUE
    ELSE IF t[open[Len(open)]].name \in SpecialTags_parser THEN FALSE
    ELSE Closes(t, SubSeq(open, 1, Len(open) - 1), name)

\* The tree builder from token i on: t is the tree so far, open the open elements.
RECURSIVE ParseFrom(_, _, _, _)
ParseFrom(tokens, i, t, open) ==
    IF i > Len(tokens) THEN t
    ELSE
        LET tok == tokens[i]
            cur == open[Len(open)]
        IN
        IF tok.kind = "text"
        THEN IF t[Len(t)].kind = "text" /\ t[Len(t)].parent = cur
             THEN ParseFrom(tokens, i + 1,
                            [t EXCEPT ![Len(t)].text = @ \o tok.text], open)
             ELSE ParseFrom(tokens, i + 1, Append(t, Text(tok.text, cur, i)), open)
        ELSE IF tok.open = "<"
        THEN LET open1 == IF tok.name = "p" /\ IsOpen(t, open, "p")
                          THEN PopThrough(t, open, "p")
                          ELSE open
                 t1 == Append(t, Element(tok.name, open1[Len(open1)], i))
             IN ParseFrom(tokens, i + 1, t1,
                          IF tok.name \in VoidTags THEN open1 ELSE Append(open1, Len(t1)))
        ELSE IF tok.name = "p"
        THEN IF IsOpen(t, open, "p")
             THEN ParseFrom(tokens, i + 1, t, PopThrough(t, open, "p"))
             ELSE ParseFrom(tokens, i + 1, Append(t, Element("p", cur, i)), open)
        ELSE IF Closes(t, open, tok.name)
        THEN ParseFrom(tokens, i + 1, t, PopThrough(t, open, tok.name))
        ELSE ParseFrom(tokens, i + 1, t, open)

EmptyTree == <<Element("html", 0, 0)>>

Parse(tokens) == ParseFrom(tokens, 1, EmptyTree, <<Root>>)

\* esc_hr on the raw input.
EscHr ==
    /\ pc = "raw"
    /\ escaped' = esc_hr(hrstr)
    /\ pc' = "escaped"
    /\ UNCHANGED <<hrstr, tree, edge, leaf_nodes, legal, img>>

\* The parse of the escaped text; extract_leaves starts at the root element.
ParseHtml ==
    /\ pc = "escaped"
    /\ tree' = Parse(escaped)
    /\ edge' = Open(Root)
    /\ pc' = "traverse"
    /\ UNCHANGED <<hrstr, escaped, leaf_nodes, legal, img>>

Tokens ==
    {Tag("<", "p", ">"), Tag("</", "p", ">"),
     Tag("<", HRBR_PLACEHOLDER, ">"), Tag("</", HRBR_PLACEHOLDER, ">"),
     Tag("<", "hr", ">"), Tag("<", "hr", "/>"), Tag("</", "hr", ">"), Tag("</", "hr", "/>"),
     Chars(<<"a">>)}

\* <p>a<hr/>b</p>
Example ==
    <<Tag("<", "p", ">"), Chars(<<"a">>), Tag("<", "hr", "/>"), Chars(<<"b">>),
      Tag("</", "p", ">")>>

Init ==
    /\ pc = "raw"
    /\ \/ \E n \in 0 .. MaxTokens : hrstr \in [1 .. n -> Tokens]
       \/ hrstr = Example
    /\ escaped = <<>>
    /\ tree = EmptyTree
    /\ edge = NoEdge
    /\ leaf_nodes = <<>>
    /\ legal = NoLegal
    /\ img = NoImg

Next == EscHr \/ ParseHtml \/ EdgeOpen \/ EdgeClose

Spec == Init /\ [][Next]_vars

---------------------------------------------------------------------------
(* SpecTree: extract_leaves on every tree of at most MaxNodes nodes below the root *)

TextValues == {<<>>, <<" ">>, <<" ", "a", " ">>}

ElementNames == {"td", "pre", "br", "img", "iframe", HRBR_PLACEHOLDER, "p"}

Labels ==
    {Element(name, 0, 0) : name \in ElementNames}
        \cup {Text(text, 0, 0) : text \in TextValues}
        \cup {Comment(0, 0)}

\* a is k or an ancestor of k under the parent map pp
RECURSIVE OnPath(_, _, _)
OnPath(pp, a, k) == a = k \/ (k > Root /\ OnPath(pp, a, pp[k]))

\* The parent maps of the ordered trees whose nodes 2..n+1 are numbered in document order.
ParentMaps(n) ==
    {pp \in [2 .. n + 1 -> 1 .. n + 1] :
        \A i \in 2 .. n + 1 : pp[i] < i /\ OnPath(pp, pp[i], i - 1)}

MkTree(n, pp, ll) ==
    [i \in 1 .. n + 1 |->
        IF i = Root THEN Element("html", 0, 0) ELSE [ll[i] EXCEPT !.parent = pp[i]]]

\* Only elements have children.
WellFormed(n, pp, ll) ==
    \A i \in 2 .. n + 1 :
        IF pp[i] = Root THEN TRUE ELSE ll[pp[i]].kind = "element"

InitTree ==
    /\ pc = "traverse"
    /\ hrstr = <<>>
    /\ escaped = <<>>
    /\ \E n \in 0 .. MaxNodes :
          \E pp \in ParentMaps(n) :
              \E ll \in [2 .. n + 1 -> Labels] :
                  WellFormed(n, pp, ll) /\ tree = MkTree(n, pp, ll)
    /\ edge = Open(Root)
    /\ leaf_nodes = <<>>
    /\ legal = NoLegal
    /\ img = NoImg

NextTree == EdgeOpen \/ EdgeClose

SpecTree == InitTree /\ [][NextTree]_vars

---------------------------------------------------------------------------
(* adf_structure.rs: LEGAL_CHILD_TYPES and the permitted-children test *)

\* AdfPermittedChildren::any: children drawn from one set, no leading run.
any(list) == [prefix |-> {}, children |-> list]

\* AdfPermittedChildren::any_starts_with: a leading set and a continuation set.
any_starts_with(starts_with, list) == [prefix |-> starts_with, children |-> list]

EMPTY_CHILD_TYPE == any({})

Rule_paragraph == any({"text", "emoji", "hardBreak"})

Rule_heading == any({"text", "emoji", "hardBreak"})

Rule_bulletList == any({"listItem"})

Rule_orderedList == any({"listItem"})

Rule_blockquote == any({"paragraph"})

Rule_codeBlock == any({"paragraph"})

Rule_listItem ==
    any_starts_with({"paragraph", "mediaSingle", "codeBlock"},
                    {"paragraph", "mediaAdfPermittedChildren", "codeBlock",
                     "orderedList", "bulletList"})

Rule_table == any({"tableRow"})

Rule_tableRow == any({"tableHeader", "tableCell"})

\* The tableHeader rule with the tableCell rule's set.
Rule_tableHeader_as_cell ==
    any({"codeBlock", "blockCard", "paragraph", "bulletList", "mediaSingle",
         "orderedList", "heading", "panel", "blockquote", "rule", "mediaGroup",
         "decisionList", "taskList", "extension", "embedCard", "nestedExpand",
         "hardBreak"})

Rule_tableHeader ==
    any({"codeBlock", "blockCard", "paragraph", "bulletList", "mediaSingle",
         "orderedList", "heading", "panel", "blockquote", "rule", "mediaGroup",
         "decisionList", "taskList", "extension", "embedCard", "nestedExpand"})

Rule_tableCell ==
    any({"codeBlock", "blockCard", "paragraph", "bulletList", "mediaSingle",
         "orderedList", "heading", "panel", "blockquote", "rule", "mediaGroup",
         "decisionList", "taskList", "extension", "embedCard", "nestedExpand",
         "hardBreak"})

Rule_doc ==
    any({"blockCard", "blockquote", "bodiedExtension", "bulletList", "codeBlock",
         "decisionList", "embedCard", "expand", "extension", "heading",
         "layoutSection", "mediaGroup", "mediaSingle", "orderedList", "panel",
         "paragraph", "rule", "table", "taskList"})

LEGAL_CHILD_TYPES ==
    "paragraph" :> Rule_paragraph @@ "heading" :> Rule_heading
        @@ "bulletList" :> Rule_bulletList @@ "orderedList" :> Rule_orderedList
        @@ "blockquote" :> Rule_blockquote @@ "codeBlock" :> Rule_codeBlock
        @@ "listItem" :> Rule_listItem @@ "table" :> Rule_table
        @@ "tableRow" :> Rule_tableRow @@ "tableHeader" :> Rule_tableHeader
        @@ "tableCell" :> Rule_tableCell @@ "doc" :> Rule_doc

\* The rule a run of the test reads: a registered parent's, or EMPTY_CHILD_TYPE.
RuleOf(parent) ==
    IF parent \in DOMAIN LEGAL_CHILD_TYPES THEN LEGAL_CHILD_TYPES[parent]
    ELSE EMPTY_CHILD_TYPE

\* isLegal, one child at a time: members of the leading set while the leading run
\* lasts, members of the continuation set from the first child outside it.
LegalStep ==
    /\ pc = "legal"
    /\ legal.idx <= Len(legal.children)
    /\ LET rule == RuleOf(legal.parent)
           child == legal.children[legal.idx]
       IN IF legal.phase = "prefix" /\ child \in rule.prefix
          THEN /\ legal' = [legal EXCEPT !.idx = @ + 1]
               /\ pc' = pc
          ELSE IF child \in rule.children
          THEN /\ legal' = [legal EXCEPT !.idx = @ + 1, !.phase = "repeat"]
               /\ pc' = pc
          ELSE /\ legal' = [legal EXCEPT !.result = FALSE]
               /\ pc' = "legal_done"
    /\ UNCHANGED <<hrstr, escaped, tree, edge, leaf_nodes, img>>

\* isLegal returns true once every child passed.
LegalDone ==
    /\ pc = "legal"
    /\ legal.idx > Len(legal.children)
    /\ pc' = "legal_done"
    /\ UNCHANGED <<hrstr, escaped, tree, edge, leaf_nodes, legal, img>>

ChildNames ==
    UNION {LEGAL_CHILD_TYPES[p].prefix \cup LEGAL_CHILD_TYPES[p].children :
               p \in DOMAIN LEGAL_CHILD_TYPES}
        \cup {"media", "doc"}

ItemNames ==
    {"paragraph", "mediaSingle", "codeBlock", "orderedList", "bulletList",
     "mediaAdfPermittedChildren", "mediaGroup", "text"}

InitLegal ==
    /\ pc = "legal"
    /\ hrstr = <<>>
    /\ escaped = <<>>
    /\ tree = EmptyTree
    /\ edge = NoEdge
    /\ leaf_nodes = <<>>
    /\ img = NoImg
    /\ \E parent \in DOMAIN LEGAL_CHILD_TYPES \cup {"EMPTY_CHILD_TYPE"} :
          \E n \in 0 .. (IF parent = "listItem" THEN MaxItemChildren ELSE MaxChildren) :
              \E children \in [1 .. n -> IF parent = "listItem" /\ n > MaxChildren
                                         THEN ItemNames ELSE ChildNames] :
                  legal = [parent |-> parent, children |-> children, idx |-> 1,
                           phase |-> "prefix", result |-> TRUE]

NextLegal == LegalStep \/ LegalDone

SpecLegal == InitLegal /\ [][NextLegal]_vars

---------------------------------------------------------------------------
(* adf_structure.rs: the img entry of NODE_MAP *)

Digits == {"0", "1", "2", "3", "4", "5", "6", "7", "8", "9"}

DigitValue(c) ==
    CASE c = "0" -> 0 [] c = "1" -> 1 [] c = "2" -> 2 [] c = "3" -> 3 [] c = "4" -> 4
      [] c = "5" -> 5 [] c = "6" -> 6 [] c = "7" -> 7 [] c = "8" -> 8 [] c = "9" -> 9

\* The digits of s accumulated onto acc, most significant first; an error at the
\* first character that is no digit.
RECURSIVE ParseDigits(_, _)
ParseDigits(s, acc) ==
    IF s = <<>> THEN [ok |-> TRUE, val |-> acc]
    ELSE IF Head(s) \notin Digits THEN [ok |-> FALSE, val |-> 0]
    ELSE ParseDigits(Tail(s), acc * 10 + DigitValue(Head(s)))

\* str::parse::<i64>: an optional sign, then at least one digit and nothing else.
\* (The strings tried are too short to leave the range of i64.)
parse_i64(s) ==
    IF s = <<>> THEN [ok |-> FALSE, val |-> 0]
    ELSE IF Head(s) \in {"+", "-"}
    THEN IF Tail(s) = <<>> THEN [ok |-> FALSE, val |-> 0]
         ELSE LET r == ParseDigits(Tail(s), 0) IN
              IF Head(s) = "-" THEN [ok |-> r.ok, val |-> 0 - r.val] ELSE r
    ELSE ParseDigits(s, 0)

\* json!({}): the object without members.
EmptyObject == <<>>

\* One member of a JSON object when the condition holds, none otherwise.
Member(cond, key, value) == IF cond THEN key :> value ELSE EmptyObject

\* The img closure emitting widthType whatever data-width-type holds.
NODE_MAP_img_any_width_type(attrs) ==
    LET has(a) == a \in DOMAIN attrs
        layout == IF has("data-layout") THEN attrs["data-layout"] ELSE "center"
        result == "layout" :> layout
        file_attrs ==
            ("id" :> attrs["data-media-id"] @@ "type" :> "file")
                @@ Member(has("data-collection"), "collection", attrs["data-collection"])
                @@ Member(has("alt"), "alt", attrs["alt"])
                @@ Member(has("data-width") /\ parse_i64(attrs["data-width"]).ok,
                          "width", parse_i64(attrs["data-width"]).val)
                @@ Member(has("data-height") /\ parse_i64(attrs["data-height"]).ok,
                          "height", parse_i64(attrs["data-height"]).val)
                @@ Member(has("data-width-type"), "widthType", attrs["data-width-type"])
        media_attrs ==
            IF has("src") THEN "url" :> attrs["src"] @@ "type" :> "external"
            ELSE IF has("data-media-id") THEN file_attrs
            ELSE EmptyObject
        child_node == [type |-> "media", attrs |-> media_attrs]
    IN [type |-> "mediaSingle", attrs |-> result, content |-> <<child_node>>]

\* The closure of from_name_and_children("mediaSingle", ...): the mediaSingle node
\* with its attributes and its synthesized media child.
NODE_MAP_img(attrs) ==
    LET has(a) == a \in DOMAIN attrs
        layout == IF has("data-layout") THEN attrs["data-layout"] ELSE "center"
        result == "layout" :> layout
        file_attrs ==
            ("id" :> attrs["data-media-id"] @@ "type" :> "file")
                @@ Member(has("data-collection"), "collection", attrs["data-collection"])
                @@ Member(has("alt"), "alt", attrs["alt"])
                @@ Member(has("data-width") /\ parse_i64(attrs["data-width"]).ok,
                          "width", parse_i64(attrs["data-width"]).val)
                @@ Member(has("data-height") /\ parse_i64(attrs["data-height"]).ok,
                          "height", parse_i64(attrs["data-height"]).val)
                @@ Member(has("data-width-type")
                              /\ (attrs["data-width-type"] = "pixel"
                                    \/ attrs["data-width-type"] = "percentage"),
                          "widthType", attrs["data-width-type"])
        media_attrs ==
            IF has("src") THEN "url" :> attrs["src"] @@ "type" :> "external"
            ELSE IF has("data-media-id") THEN file_attrs
            ELSE EmptyObject
        child_node == [type |-> "media", attrs |-> media_attrs]
    IN [type |-> "mediaSingle", attrs |-> result, content |-> <<child_node>>]

\* The registry resolves an img element against its attributes.
ResolveImg ==
    /\ pc = "img"
    /\ img' = [img EXCEPT !.node = NODE_MAP_img(img.attrs)]
    /\ pc' = "img_done"
    /\ UNCHANGED <<hrstr, escaped, tree, edge, leaf_nodes, legal>>

\* An attribute absent, or present with one of the values.
Opt(name, values) == {EmptyObject} \cup {name :> v : v \in values}

AttrChars == {"5", "0", "-", "+", "x", " "}

AttrStrings == UNION {[1 .. n -> AttrChars] : n \in 0 .. MaxAttrLen}

InitImg ==
    /\ pc = "img"
    /\ hrstr = <<>>
    /\ escaped = <<>>
    /\ tree = EmptyTree
    /\ edge = NoEdge
    /\ leaf_nodes = <<>>
    /\ legal = NoLegal
    /\ \E src \in Opt("src", {"http://x/y.png"}),
          id \in Opt("data-media-id", {"123"}),
          layout \in Opt("data-layout", {"wide"}),
          collection \in Opt("data-collection", {"c"}),
          alt \in Opt("alt", {"t"}),
          width \in Opt("data-width", AttrStrings),
          height \in Opt("data-height", {<<>>, <<"7">>, <<"-", "3">>, <<"7", "x">>}),
          width_type \in Opt("data-width-type", {"pixel", "percentage", "em"}) :
          img = [attrs |-> src @@ id @@ layout @@ collection @@ alt @@ width
                              @@ height @@ width_type,
                 node |-> <<>>]

NextImg == ResolveImg

SpecImg == InitImg /\ [][NextImg]_vars

---------------------------------------------------------------------------
(* Properties of extract_leaves *)

\* The indices of the leaves recorded for a node.
LeavesOf(n) == {i \in DOMAIN leaf_nodes : leaf_nodes[i].node = n}

IsElement(n, name) == tree[n].kind = "element" /\ tree[n].name = name

HasPreAncestor(n) == \E a \in DOMAIN tree : a \in Ancestors(n) /\ IsElement(a, "pre")

NonWhitespace(s) == \E i \in DOMAIN s : s[i] \notin Whitespace

Descendants(n) == {d \in DOMAIN tree : n \in Ancestors(d)}

\* C1 as stated: any two leaves stand in the order in which their source nodes
\* first appear in the source (node ids are numbered in that order).
C1_FirstAppearanceOrder ==
    \A i, j \in DOMAIN leaf_nodes :
        i < j => leaf_nodes[i].node < leaf_nodes[j].node

\* C1 amended: any two leaves stand in the order in which their source nodes close:
\* a leaf never precedes the leaf of one of its descendants, and two leaves of nodes
\* neither of which contains the other stand in order of first appearance.
C1_ClosingOrder ==
    \A i, j \in DOMAIN leaf_nodes :
        i < j =>
            LET m == leaf_nodes[i].node
                n == leaf_nodes[j].node
            IN /\ m # n
               /\ m \notin Ancestors(n)
               /\ (n \in Ancestors(m) \/ m < n)

\* An element leaf that follows the leaf of one of its descendants, and two leaves
\* of unrelated nodes.
C1_Witness ==
    /\ pc = "done"
    /\ \E i, j \in DOMAIN leaf_nodes :
          i < j /\ leaf_nodes[j].node \in Ancestors(leaf_nodes[i].node)
    /\ \E i, j \in DOMAIN leaf_nodes :
          /\ i < j
          /\ leaf_nodes[j].node \notin Ancestors(leaf_nodes[i].node)

\* The whitespace policy's test for a text node.
PolicyKeeps(n) ==
    IF HasPreAncestor(n) THEN tree[n].text # <<>> ELSE NonWhitespace(tree[n].text)

\* C2: a text node has a text leaf iff the whitespace policy keeps it, it has at
\* most one, and the leaf carries the node's text untrimmed.
C2_WhitespacePolicy ==
    pc = "done" =>
        \A n \in DOMAIN tree :
            tree[n].kind = "text" =>
                /\ (LeavesOf(n) # {}) <=> PolicyKeeps(n)
                /\ Cardinality(LeavesOf(n)) <= 1
                /\ \A i \in LeavesOf(n) :
                      leaf_nodes[i].name = "text" /\ leaf_nodes[i].text = tree[n].text

\* Whitespace-only text kept under <pre>, and text with surrounding whitespace kept
\* untrimmed outside <pre>.
C2_Witness ==
    /\ pc = "done"
    /\ \E n \in DOMAIN tree :
          /\ tree[n].kind = "text" /\ HasPreAncestor(n)
          /\ tree[n].text = <<" ">> /\ LeavesOf(n) # {}
    /\ \E n \in DOMAIN tree :
          /\ tree[n].kind = "text" /\ ~HasPreAncestor(n)
          /\ \E i \in LeavesOf(n) : leaf_nodes[i].text = <<" ", "a", " ">>

TdLeaves(n) == {i \in LeavesOf(n) : leaf_nodes[i].name = "td"}

\* C3 as stated: a td has one td leaf if no descendant is a br element or a text
\* node with a non-whitespace character (the outside-<pre> test also under <pre>),
\* and none otherwise.
C3_OutsideTestEverywhere ==
    pc = "done" =>
        \A n \in DOMAIN tree :
            IsElement(n, "td") =>
                Cardinality(TdLeaves(n)) =
                    IF \E d \in Descendants(n) :
                          \/ IsElement(d, "br")
                          \/ tree[d].kind = "text" /\ NonWhitespace(tree[d].text)
                    THEN 0 ELSE 1

\* C3 amended: a descendant is meaningful iff it is a br element or a text node
\* that the whitespace policy keeps in its own context (non-empty under <pre>).
C3_TdEmptiness ==
    pc = "done" =>
        \A n \in DOMAIN tree :
            IsElement(n, "td") =>
                Cardinality(TdLeaves(n)) =
                    IF \E d \in Descendants(n) :
                          \/ IsElement(d, "br")
                          \/ tree[d].kind = "text" /\ PolicyKeeps(d)
                    THEN 0 ELSE 1

\* A td whose only content is whitespace under a nested <pre>: no td leaf.
C3_Witness ==
    /\ pc = "done"
    /\ \E n, d \in DOMAIN tree :
          /\ IsElement(n, "td") /\ d \in Descendants(n)
          /\ tree[d].kind = "text" /\ tree[d].text = <<" ">>
          /\ IsElement(tree[d].parent, "pre") /\ tree[d].parent # n
          /\ Cardinality(Descendants(n)) = 2
          /\ TdLeaves(n) = {}

SelfContained == {"br", "img", "iframe"}

\* C8: every br, img and iframe element has exactly one leaf, named as the element,
\* and every element leaf carries the empty text.
C8_SelfContainedLeaves ==
    pc = "done" =>
        /\ \A n \in DOMAIN tree :
              (tree[n].kind = "element" /\ tree[n].name \in SelfContained) =>
                  /\ Cardinality(LeavesOf(n)) = 1
                  /\ \A i \in LeavesOf(n) : leaf_nodes[i].name = tree[n].name
        /\ \A i \in DOMAIN leaf_nodes :
              leaf_nodes[i].name # "text" => leaf_nodes[i].text = <<>>

\* A br with content of its own below a td, each leaf recorded.
C8_Witness ==
    /\ pc = "done"
    /\ \E n \in DOMAIN tree :
          /\ IsElement(n, "br")
          /\ Descendants(n) # {}
          /\ \E a \in Ancestors(n) : IsElement(a, "td")
          /\ LeavesOf(n) # {}

LeafNames == {"text", "hr", "br", "img", "iframe", "td"}

SpecialTags == {HRBR_PLACEHOLDER, "br", "img", "iframe", "td"}

\* C9: every leaf is named text, hr, br, img, iframe or td; an element of any other
\* tag has no leaf of its own, and the leaves of its descendants are still recorded.
C9_OnlySpecialTags ==
    pc = "done" =>
        /\ \A i \in DOMAIN leaf_nodes : leaf_nodes[i].name \in LeafNames
        /\ \A n \in DOMAIN tree :
              (tree[n].kind = "element" /\ tree[n].name \notin SpecialTags) =>
                  /\ LeavesOf(n) = {}
                  /\ \A d \in Descendants(n) :
                        \/ tree[d].kind = "text" /\ NonWhitespace(tree[d].text)
                        \/ tree[d].kind = "element" /\ tree[d].name \in SelfContained
                        => LeavesOf(d) # {}

\* A p element with kept text and an img below it: no leaf for the p, one for each
\* of the two.
C9_Witness ==
    /\ pc = "done"
    /\ \E n, d, e \in DOMAIN tree :
          /\ IsElement(n, "p") /\ LeavesOf(n) = {}
          /\ tree[d].parent = n /\ tree[d].kind = "text" /\ LeavesOf(d) # {}
          /\ tree[e].parent = n /\ IsElement(e, "img") /\ LeavesOf(e) # {}

---------------------------------------------------------------------------
(* Properties of the placeholder rewrite *)

\* The input tags <hr> and <hr/>.
HrTags == {Tag("<", "hr", ">"), Tag("<", "hr", "/>")}

\* Where the token at position i of the input starts in the escaped text.
EscPos(i) == i + Cardinality({k \in 1 .. i - 1 : IsHrMatch(hrstr[k])})

\* The leaves whose node the parser built from the escaped token at position k.
LeavesFrom(k) == {j \in DOMAIN leaf_nodes : tree[leaf_nodes[j].node].src = k}

\* C4: every <hr> and <hr/> of the input becomes one placeholder pair, and yields
\* exactly one leaf, named hr, that follows the text leaves of the text before it
\* and precedes those of the text after it; no leaf bears the placeholder name; for
\* <p>a<hr/>b</p> the leaves are "a", hr, "b".
C4_HrHandling ==
    pc = "done" =>
        /\ \A i \in DOMAIN hrstr :
              hrstr[i] \in HrTags =>
                  LET k == EscPos(i) IN
                  /\ k + 1 <= Len(escaped)
                  /\ SubSeq(escaped, k, k + 1) = Replacement
                  /\ Cardinality(LeavesFrom(k)) = 1
                  /\ \A j \in LeavesFrom(k) :
                        /\ leaf_nodes[j].name = "hr"
                        /\ \A l \in DOMAIN leaf_nodes :
                              leaf_nodes[l].name = "text" =>
                                  (l < j <=> tree[leaf_nodes[l].node].src < k)
        /\ \A j \in DOMAIN leaf_nodes : leaf_nodes[j].name # HRBR_PLACEHOLDER
        /\ hrstr = Example =>
              [j \in DOMAIN leaf_nodes |-> <<leaf_nodes[j].name, leaf_nodes[j].text>>]
                  = << <<"text", <<"a">> >>, <<"hr", <<>> >>, <<"text", <<"b">> >> >>

\* An hr leaf of a rewritten <hr/> inside a p element, between two text leaves.
C4_Witness ==
    /\ pc = "done"
    /\ \E i \in DOMAIN hrstr :
          /\ hrstr[i] = Tag("<", "hr", "/>")
          /\ \E j \in LeavesFrom(EscPos(i)) :
                /\ j - 1 \in DOMAIN leaf_nodes /\ leaf_nodes[j - 1].name = "text"
                /\ j + 1 \in DOMAIN leaf_nodes /\ leaf_nodes[j + 1].name = "text"
                /\ tree[tree[leaf_nodes[j].node].parent].name = "p"

\* C10: the hr leaves correspond one-to-one to the <hr> and <hr/> tags of the
\* input, and esc_hr changes nothing but those tags.
C10_RoundTripExact ==
    pc = "done" =>
        /\ Cardinality({j \in DOMAIN leaf_nodes : leaf_nodes[j].name = "hr"})
              = Cardinality({i \in DOMAIN hrstr : hrstr[i] \in HrTags})
        /\ \A i \in DOMAIN hrstr :
              hrstr[i] \notin HrTags => escaped[EscPos(i)] = hrstr[i]

---------------------------------------------------------------------------
(* Properties of the permitted-children rules *)

BlockSet ==
    {"codeBlock", "blockCard", "paragraph", "bulletList", "mediaSingle", "orderedList",
     "heading", "panel", "blockquote", "rule", "mediaGroup", "decisionList",
     "taskList", "extension", "embedCard", "nestedExpand"}

\* The set each AnySet parent is specified to accept.
AnySetOf(parent) ==
    CASE parent \in {"paragraph", "heading"} -> {"text", "emoji", "hardBreak"}
      [] parent \in {"bulletList", "orderedList"} -> {"listItem"}
      [] parent \in {"blockquote", "codeBlock"} -> {"paragraph"}
      [] parent = "table" -> {"tableRow"}
      [] parent = "tableRow" -> {"tableHeader", "tableCell"}
      [] parent = "tableHeader" -> BlockSet
      [] parent = "tableCell" -> BlockSet \cup {"hardBreak"}
      [] parent = "doc" ->
            {"blockCard", "blockquote", "bodiedExtension", "bulletList", "codeBlock",
             "decisionList", "embedCard", "expand", "extension", "heading",
             "layoutSection", "mediaGroup", "mediaSingle", "orderedList", "panel",
             "paragraph", "rule", "table", "taskList"}
      [] OTHER -> {}

AnySetParents ==
    {"paragraph", "heading", "bulletList", "orderedList", "blockquote", "codeBlock",
     "table", "tableRow", "tableHeader", "tableCell", "doc", "EMPTY_CHILD_TYPE"}

\* C5: under an AnySet parent a sequence is legal iff each of its names is in the
\* parent's set; so the empty sequence is legal, EMPTY_CHILD_TYPE accepts nothing
\* else, and hardBreak is legal under tableCell but not under tableHeader.
C5_AnySetLegal ==
    (pc = "legal_done" /\ legal.parent \in AnySetParents) =>
        /\ legal.result <=>
              \A i \in DOMAIN legal.children : legal.children[i] \in AnySetOf(legal.parent)
        /\ legal.children = <<>> => legal.result
        /\ (legal.parent = "EMPTY_CHILD_TYPE" /\ legal.children # <<>>) => ~legal.result
        /\ legal.children = <<"hardBreak">> =>
              /\ legal.parent = "tableCell" => legal.result
              /\ legal.parent = "tableHeader" => ~legal.result

\* hardBreak beside a paragraph accepted under tableCell.
C5_Witness ==
    /\ pc = "legal_done"
    /\ legal.parent = "tableCell"
    /\ legal.children = <<"paragraph", "hardBreak">>
    /\ legal.result

\* The child type names that denote media content.
MediaRelated == {"media", "mediaSingle", "mediaGroup"}

\* C6: a sequence is legal under listItem iff it splits into a leading run drawn
\* from paragraph, mediaSingle, codeBlock and a trailing run drawn from paragraph,
\* the media types, codeBlock, orderedList, bulletList.
C6_ListItemLegal ==
    (pc = "legal_done" /\ legal.parent = "listItem") =>
        (legal.result <=>
            \E k \in 0 .. Len(legal.children) :
                /\ \A i \in 1 .. k :
                      legal.children[i] \in {"paragraph", "mediaSingle", "codeBlock"}
                /\ \A i \in k + 1 .. Len(legal.children) :
                      legal.children[i] \in
                          {"paragraph", "codeBlock", "orderedList", "bulletList"}
                              \cup MediaRelated)

---------------------------------------------------------------------------
(* Properties of the img mapping *)

\* A string that reads as an integer: an optional sign and one or more digits.
IsInteger(s) ==
    LET body == IF s # <<>> /\ s[1] \in {"+", "-"} THEN Tail(s) ELSE s IN
    body # <<>> /\ \A i \in DOMAIN body : body[i] \in Digits

RECURSIVE Pow10(_)
Pow10(n) == IF n = 0 THEN 1 ELSE 10 * Pow10(n - 1)

RECURSIVE SumTo(_, _)
SumTo(body, n) ==
    IF n = 0 THEN 0
    ELSE DigitValue(body[n]) * Pow10(Len(body) - n) + SumTo(body, n - 1)

\* The integer such a string denotes.
IntegerOf(s) ==
    LET body == IF s[1] \in {"+", "-"} THEN Tail(s) ELSE s IN
    IF s[1] = "-" THEN 0 - SumTo(body, Len(body)) ELSE SumTo(body, Len(body))

\* C7: an img resolves to mediaSingle with layout = data-layout or "center" and
\* one media child: {url, type: external} when src is present; else, when
\* data-media-id is present, {id, type: file} plus collection and alt when present,
\* width and height when the string reads as an integer (emitted as that integer),
\* widthType when data-width-type is pixel or percentage.
C7_ImgMapping ==
    pc = "img_done" =>
        LET a == img.attrs
            has(x) == x \in DOMAIN a
            m == img.node.content[1].attrs
        IN
        /\ img.node.type = "mediaSingle"
        /\ DOMAIN img.node.attrs = {"layout"}
        /\ img.node.attrs["layout"] = IF has("data-layout") THEN a["data-layout"] ELSE "center"
        /\ Len(img.node.content) = 1
        /\ img.node.content[1].type = "media"
        /\ has("src") => (DOMAIN m = {"url", "type"} /\ m["url"] = a["src"]
                            /\ m["type"] = "external")
        /\ (~has("src") /\ has("data-media-id")) =>
              /\ DOMAIN m =
                    {"id", "type"}
                        \cup (IF has("data-collection") THEN {"collection"} ELSE {})
                        \cup (IF has("alt") THEN {"alt"} ELSE {})
                        \cup (IF has("data-width") /\ IsInteger(a["data-width"])
                              THEN {"width"} ELSE {})
                        \cup (IF has("data-height") /\ IsInteger(a["data-height"])
                              THEN {"height"} ELSE {})
                        \cup (IF has("data-width-type")
                                    /\ a["data-width-type"] \in {"pixel", "percentage"}
                              THEN {"widthType"} ELSE {})
              /\ m["id"] = a["data-media-id"]
              /\ m["type"] = "file"
              /\ "collection" \in DOMAIN m => m["collection"] = a["data-collection"]
              /\ "alt" \in DOMAIN m => m["alt"] = a["alt"]
              /\ "width" \in DOMAIN m => m["width"] = IntegerOf(a["data-width"])
              /\ "height" \in DOMAIN m => m["height"] = IntegerOf(a["data-height"])
              /\ "widthType" \in DOMAIN m => m["widthType"] = a["data-width-type"]
        /\ a = ("data-media-id" :> "123" @@ "data-width" :> <<"5", "0">>
                    @@ "data-width-type" :> "pixel") =>
              m = ("id" :> "123" @@ "type" :> "file" @@ "width" :> 50
                      @@ "widthType" :> "pixel")
        /\ a = ("src" :> "http://x/y.png" @@ "data-layout" :> "wide") =>
              /\ img.node.attrs = ("layout" :> "wide")
              /\ m = ("url" :> "http://x/y.png" @@ "type" :> "external")

\* A file-based img whose width parses and is emitted as an integer, whose height
\* does not parse and is omitted, and whose width type is not one of the two.
C7_Witness ==
    /\ pc = "img_done"
    /\ "src" \notin DOMAIN img.attrs
    /\ "data-media-id" \in DOMAIN img.attrs
    /\ "data-width" \in DOMAIN img.attrs /\ img.attrs["data-width"] = <<"5", "0">>
    /\ "data-height" \in DOMAIN img.attrs /\ img.attrs["data-height"] = <<"7", "x">>
    /\ "data-width-type" \in DOMAIN img.attrs /\ img.attrs["data-width-type"] = "em"
    /\ DOMAIN img.node.content[1].attrs = {"id", "type", "width"}
    /\ img.node.content[1].attrs["width"] = 50

====
